---- MODULE Spec2Model ----
(***************************************************************************)
(* Slot booking of the NGO Connect platform (project/app.py): events with  *)
(* their time slots, and the volunteers' concurrent book_slot requests.    *)
(*                                                                         *)
(* The tables events, slots and bookings hold the committed rows.  Each    *)
(* book_slot request is a process that runs, in order, the duplicate       *)
(* check (lines 643-649), the locking read of the slot row (line 654) and  *)
(* the body of the transaction block (lines 656-676).  The NGO handlers    *)
(* run as one step each.                                                   *)
(*                                                                         *)
(* A request reads the slot row once, at line 654, and everything it       *)
(* decides and writes afterwards comes from that read: the row is kept in  *)
(* the request's field seen.  The block commits the insert of the booking  *)
(* and the update of the slot together when it is left, and an exception   *)
(* rolls both back (lines 678-680).  app.py has no handler that cancels a  *)
(* booking; Cancel follows section 4.2 of the design.                      *)
(*                                                                         *)
(* ngo_create_event commits the Event row before it builds the slots, so   *)
(* its failure after that commit is a step of its own (CreateException).   *)
(* SpecLive adds the fairness of the threads and of the row lock.  The     *)
(* migration runner of database/migrations.py is a separate program on     *)
(* its own table (migrationsTable, run) and has its own specification,     *)
(* SpecMig.  The login handler works on the session cookie of the browser  *)
(* (session_cookie, posts) and has the specification SpecLogin.            *)
(***************************************************************************)
EXTENDS Integers, FiniteSets, Sequences, TLC

\* ------------------------------------------------------------ bounds
MaxEvents == 2        \* events ever created (autoincrement event ids)
MaxDay == 1           \* start_date and end_date are days 1..MaxDay
MaxCap == 2           \* max_volunteers posted in a form is 0..MaxCap
NumVol == 2           \* volunteer ids 1..NumVol
NumReq == 2           \* concurrent book_slot requests (server threads)
MaxSlotInput == 1     \* slot_id posted to book_slot is 1..MaxSlotInput
MaxEventInput == 2    \* event_id posted to book_slot is 1..MaxEventInput
MaxBookings == 2      \* bookings ever inserted (autoincrement booking ids)
RaceReqs == 3         \* requests of the capacity race scenario
MaxRows == 6          \* rows ever recorded in the migrations table
NumPosts == 2         \* login POSTs of one browser that may overlap

\* ------------------------------------------------------------ constants
FirstHour == 9
LastHour == 17
SlotHours == 2
LatestVersion == 4    \* the registered migrations have versions 1..4
MaxFailedAttempts == 5  \* failed_attempts >= 5 locks the login

MsgBooked == "Slot booked successfully"
MsgDuplicate == "You have already booked this slot"
MsgNotAvailable == "Slot not available"
MsgFull == "Slot is full"
MsgFailed == "Booking failed"
NoOutcome == "none"

VARIABLES events, slots, bookings, nextEventId, nextSlotId, nextBookingId,
          req, rowlock, migrationsTable, run, session_cookie, posts

vars == << events, slots, bookings, nextEventId, nextSlotId, nextBookingId,
           req, rowlock, migrationsTable, run, session_cookie, posts >>

\* the state of database/migrations.py, which no handler of app.py touches
migvars == << migrationsTable, run >>

\* the state of login: the session, which Flask keeps in the signed cookie of
\* the browser, and the login POSTs of that browser
loginvars == << session_cookie, posts >>

tables == << events, slots, bookings, nextEventId, nextSlotId, nextBookingId >>

Volunteers == 1..NumVol
Days == 1..MaxDay
Capacities == 0..MaxCap
\* max_volunteers posted to the edit form: the value is stored in the Event
\* row only, so one value shows what the edit does
EditCapacities == { MaxCap }
SlotInputs == 1..MaxSlotInput
EventIds == 1..MaxEvents
EventInputs == 1..MaxEventInput

\* ------------------------------------------------------------ helpers
\* range(9, 17, 2): the start hours of the slots of one day, ascending
HoursOfDay == { h \in FirstHour..(LastHour - 1) : (h - FirstHour) % SlotHours = 0 }

SlotsPerDay == Cardinality(HoursOfDay)

\* the k-th (from 0) start hour of a day
HourAt(k) == FirstHour + SlotHours * k

NoRow == [found |-> FALSE, is_available |-> FALSE, current_volunteers |-> 0,
          max_volunteers |-> 0]

IdleReq == [pc |-> "idle", volunteer |-> 0, slot_id |-> 0, seen |-> NoRow,
            outcome |-> NoOutcome]

\* rows of the bookings table that reference slot s
BookingsOfSlot(s) == { b \in DOMAIN bookings : bookings[b].time_slot_id = s }

ActiveBookingsOfSlot(s) == { b \in BookingsOfSlot(s) : bookings[b].status # "cancelled" }

ConfirmedBookingsOfSlot(s) == { b \in BookingsOfSlot(s) : bookings[b].status = "confirmed" }

\* the duplicate check filtering on the wrong column
ExistingBooking_WrongColumn(v, s) ==
    \E b \in DOMAIN bookings :
        bookings[b].volunteer_id = v /\ bookings[b].event_id = s

\* Booking.query.filter_by(volunteer_id=..., time_slot_id=...).first()
ExistingBooking(v, s) ==
    \E b \in DOMAIN bookings :
        bookings[b].volunteer_id = v /\ bookings[b].time_slot_id = s

\* the slot read without with_for_update(): nobody waits for the row
LockFree_NoRowLock(s) == TRUE

\* with_for_update(): the row lock on slot s is held by no request
LockFree(s) == \A r \in DOMAIN rowlock : rowlock[r] # s

\* the Event row ngo_create_event inserts
NewEvent(sd, ed, mv) ==
    [ is_active |-> TRUE, max_volunteers |-> mv, start_date |-> sd, end_date |-> ed ]

\* the rows ngo_create_event adds for the days sd..ed, with ids from base on
NewSlots(e, sd, ed, mv, base) ==
    LET n == IF sd <= ed THEN SlotsPerDay * (ed - sd + 1) ELSE 0
    IN  [ id \in base..(base + n - 1) |->
            LET k == id - base
            IN  [ event_id |-> e,
                  day |-> sd + (k \div SlotsPerDay),
                  start_hour |-> HourAt(k % SlotsPerDay),
                  end_hour |-> HourAt(k % SlotsPerDay) + SlotHours,
                  max_volunteers |-> mv,
                  current_volunteers |-> 0,
                  is_available |-> TRUE ] ]

\* the availability test written with > instead of >=
SlotAfterBooking_OffByOne(row, seen) ==
    [ row EXCEPT !.current_volunteers = seen.current_volunteers + 1,
                 !.is_available = IF seen.current_volunteers + 1 > seen.max_volunteers
                                  THEN FALSE ELSE seen.is_available ]

\* the availability flag left alone
SlotAfterBooking_NeverCloses(row, seen) ==
    [ row EXCEPT !.current_volunteers = seen.current_volunteers + 1 ]

\* the counter left alone
SlotAfterBooking_NoIncrement(row, seen) ==
    [ row EXCEPT !.is_available = IF seen.current_volunteers + 1 >= seen.max_volunteers
                                  THEN FALSE ELSE seen.is_available ]

\* the slot row as book_slot leaves it, from the row it read under the lock
SlotAfterBooking(row, seen) ==
    [ row EXCEPT !.current_volunteers = seen.current_volunteers + 1,
                 !.is_available = IF seen.current_volunteers + 1 >= seen.max_volunteers
                                  THEN FALSE ELSE seen.is_available ]

\* ------------------------------------------------------------ migrations
\* the versions of self.migrations
RegisteredVersions == 1..LatestVersion

\* the migrations table: whether it exists, and the version column of its
\* rows in the order of their insertion
NoTable == [ exists |-> FALSE, versions |-> << >> ]

\* the call of run_migrations: not running, or in its loop with the
\* migrations still to apply
IdleRun == [ pc |-> "idle", pending |-> << >> ]

MigStart == migrationsTable = NoTable /\ run = IdleRun

\* SELECT MAX(version) FROM migrations; no row gives NULL
MaxVersion(vs) ==
    IF vs = << >> THEN 0
    ELSE CHOOSE m \in { vs[i] : i \in DOMAIN vs } : \A i \in DOMAIN vs : vs[i] <= m

\* get_current_version: 0 when the table had to be created, when it has no
\* row, and when a query raised (the except branch returns 0)
get_current_version(tbl, raised) ==
    IF raised \/ ~ tbl.exists THEN 0 ELSE MaxVersion(tbl.versions)

\* sorted(pending_migrations, key=version)
RECURSIVE Ascending(_)
Ascending(S) ==
    IF S = {} THEN << >>
    ELSE LET m == CHOOSE x \in S : \A y \in S : x <= y
         IN  << m >> \o Ascending(S \ {m})

\* ------------------------------------------------------------ session
\* the session without the key failed_login_attempts and without a user
EmptySession == [ present |-> FALSE, failed_login_attempts |-> 0, user_id |-> FALSE ]

IdlePost == [ pc |-> "idle", sent |-> EmptySession, outcome |-> NoOutcome ]

LoginStart == session_cookie = EmptySession /\ posts = [ p \in 1..NumPosts |-> IdlePost ]

\* session.get('failed_login_attempts', 0)
FailedAttempts(s) == IF s.present THEN s.failed_login_attempts ELSE 0

\* ------------------------------------------------------------ initial state
Init ==
    /\ events = << >>
    /\ slots = << >>
    /\ bookings = << >>
    /\ nextEventId = 1
    /\ nextSlotId = 1
    /\ nextBookingId = 1
    /\ req = [ r \in 1..NumReq |-> IdleReq ]
    /\ rowlock = [ r \in 1..NumReq |-> 0 ]
    /\ MigStart
    /\ LoginStart

\* ------------------------------------------------------------ NGO handlers
\* POST /ngo/events/new: the Event row, then SlotsPerDay slots for each day
\* of start_date..end_date, each with the event's max_volunteers
ngo_create_event(sd, ed, mv) ==
    /\ nextEventId <= MaxEvents
    /\ LET e == nextEventId
           new == NewSlots(e, sd, ed, mv, nextSlotId)
       IN  /\ events' = events @@ (e :> NewEvent(sd, ed, mv))
           /\ slots' = slots @@ new
           /\ nextSlotId' = nextSlotId + Cardinality(DOMAIN new)
    /\ nextEventId' = nextEventId + 1
    /\ UNCHANGED << bookings, nextBookingId, req, rowlock >>
    /\ UNCHANGED migvars
    /\ UNCHANGED loginvars

\* lines 439-440 and 469-471: the Event row is committed on its own, before
\* the slots are built; an exception while the slots are added or at their
\* commit (line 465) rolls back the slots only
CreateException(sd, ed, mv) ==
    /\ nextEventId <= MaxEvents
    /\ events' = events @@ (nextEventId :> NewEvent(sd, ed, mv))
    /\ nextEventId' = nextEventId + 1
    /\ UNCHANGED << slots, bookings, nextSlotId, nextBookingId, req, rowlock >>
    /\ UNCHANGED migvars
    /\ UNCHANGED loginvars

\* POST /ngo/events/<id>/edit: writes the Event row only
ngo_edit_event(e, sd, ed, mv) ==
    /\ e \in DOMAIN events
    /\ events' = [ events EXCEPT ![e].start_date = sd, ![e].end_date = ed,
                                 ![e].max_volunteers = mv ]
    /\ UNCHANGED << slots, bookings, nextEventId, nextSlotId, nextBookingId, req, rowlock >>
    /\ UNCHANGED migvars
    /\ UNCHANGED loginvars

\* event.is_active = not event.is_active
Toggled(ev) == [ ev EXCEPT !.is_active = ~ ev.is_active ]

\* POST /ngo/events/<id>/toggle-status: writes the Event row only
ngo_toggle_event_status(e) ==
    /\ e \in DOMAIN events
    /\ events' = [ events EXCEPT ![e] = Toggled(events[e]) ]
    /\ UNCHANGED << slots, bookings, nextEventId, nextSlotId, nextBookingId, req, rowlock >>
    /\ UNCHANGED migvars
    /\ UNCHANGED loginvars

\* the bookings deleted without the filter on event_id
ngo_delete_event_NoFilter(e) ==
    /\ e \in DOMAIN events
    /\ \A s \in DOMAIN slots : slots[s].event_id = e => LockFree(s)
    /\ bookings' = << >>
    /\ slots' = [ s \in { x \in DOMAIN slots : slots[x].event_id # e } |-> slots[s] ]
    /\ events' = [ x \in DOMAIN events \ {e} |-> events[x] ]
    /\ UNCHANGED << nextEventId, nextSlotId, nextBookingId, req, rowlock >>
    /\ UNCHANGED migvars
    /\ UNCHANGED loginvars

\* POST /ngo/events/<id>/delete: the bookings and the slots whose event_id is
\* e, then the event; the DELETE waits for the row locks on the slots
ngo_delete_event(e) ==
    /\ e \in DOMAIN events
    /\ \A s \in DOMAIN slots : slots[s].event_id = e => LockFree(s)
    /\ bookings' = [ b \in { x \in DOMAIN bookings : bookings[x].event_id # e } |-> bookings[b] ]
    /\ slots' = [ s \in { x \in DOMAIN slots : slots[x].event_id # e } |-> slots[s] ]
    /\ events' = [ x \in DOMAIN events \ {e} |-> events[x] ]
    /\ UNCHANGED << nextEventId, nextSlotId, nextBookingId, req, rowlock >>
    /\ UNCHANGED migvars
    /\ UNCHANGED loginvars

\* ------------------------------------------------------------ book_slot
\* the requests between the duplicate check and their response
InFlight == { r \in DOMAIN req : req[r].pc \in {"checked", "locked"} }

\* the request record once the response has been sent
Returned(msg) == [ IdleReq EXCEPT !.pc = "done", !.outcome = msg ]

\* lines 631-649: the call of volunteer v for slot s arrives at server thread
\* r; it is answered at once if any booking of v on s exists
BookCheckExisting(r, v, s) ==
    /\ req[r].pc \in {"idle", "done"}
    /\ IF ExistingBooking(v, s)
       THEN req' = [ req EXCEPT ![r] = Returned(MsgDuplicate) ]
       ELSE req' = [ req EXCEPT ![r] = [ IdleReq EXCEPT !.pc = "checked", !.volunteer = v,
                                         !.slot_id = s ] ]
    /\ UNCHANGED << tables, rowlock >>
    /\ UNCHANGED migvars
    /\ UNCHANGED loginvars

\* lines 652-654: the locking read; a missing row is read as None, without
\* a lock
BookLockSlot(r) ==
    /\ req[r].pc = "checked"
    /\ LET s == req[r].slot_id
       IN  IF s \in DOMAIN slots
           THEN /\ LockFree(s)
                /\ rowlock' = [ rowlock EXCEPT ![r] = s ]
                /\ req' = [ req EXCEPT ![r].pc = "locked",
                              ![r].seen = [ found |-> TRUE,
                                            is_available |-> slots[s].is_available,
                                            current_volunteers |-> slots[s].current_volunteers,
                                            max_volunteers |-> slots[s].max_volunteers ] ]
           ELSE /\ rowlock' = rowlock
                /\ req' = [ req EXCEPT ![r].pc = "locked", ![r].seen = NoRow ]
    /\ UNCHANGED tables
    /\ UNCHANGED migvars
    /\ UNCHANGED loginvars

\* the block left by a rejection without giving the row lock back
BookCommit_LockKeptOnReject(r, e) ==
    /\ req[r].pc = "locked"
    /\ LET s == req[r].slot_id
           seen == req[r].seen
       IN  IF ~ seen.found \/ ~ seen.is_available
           THEN /\ req' = [ req EXCEPT ![r] = Returned(MsgNotAvailable) ]
                /\ rowlock' = rowlock
                /\ UNCHANGED tables
           ELSE IF seen.current_volunteers >= seen.max_volunteers
           THEN /\ req' = [ req EXCEPT ![r] = Returned(MsgFull) ]
                /\ rowlock' = rowlock
                /\ UNCHANGED tables
           ELSE /\ bookings' = bookings @@
                       (nextBookingId :> [ volunteer_id |-> req[r].volunteer,
                                           time_slot_id |-> s,
                                           event_id |-> e,
                                           status |-> "confirmed" ])
                /\ nextBookingId' = nextBookingId + 1
                /\ slots' = IF s \in DOMAIN slots
                            THEN [ slots EXCEPT ![s] = SlotAfterBooking(slots[s], seen) ]
                            ELSE slots
                /\ req' = [ req EXCEPT ![r] = Returned(MsgBooked) ]
                /\ rowlock' = [ rowlock EXCEPT ![r] = 0 ]
                /\ UNCHANGED << events, nextEventId, nextSlotId >>
    /\ UNCHANGED migvars
    /\ UNCHANGED loginvars

\* lines 656-676: the two rejections, or the insert of the booking and the
\* update of the slot, committed on leaving the block; e is the event_id
\* of the request, which is used in the insert only
BookCommit(r, e) ==
    /\ req[r].pc = "locked"
    /\ LET s == req[r].slot_id
           seen == req[r].seen
       IN  IF ~ seen.found \/ ~ seen.is_available
           THEN /\ req' = [ req EXCEPT ![r] = Returned(MsgNotAvailable) ]
                /\ UNCHANGED tables
           ELSE IF seen.current_volunteers >= seen.max_volunteers
           THEN /\ req' = [ req EXCEPT ![r] = Returned(MsgFull) ]
                /\ UNCHANGED tables
           ELSE /\ bookings' = bookings @@
                       (nextBookingId :> [ volunteer_id |-> req[r].volunteer,
                                           time_slot_id |-> s,
                                           event_id |-> e,
                                           status |-> "confirmed" ])
                /\ nextBookingId' = nextBookingId + 1
                /\ slots' = IF s \in DOMAIN slots
                            THEN [ slots EXCEPT ![s] = SlotAfterBooking(slots[s], seen) ]
                            ELSE slots
                /\ req' = [ req EXCEPT ![r] = Returned(MsgBooked) ]
                /\ UNCHANGED << events, nextEventId, nextSlotId >>
    /\ rowlock' = [ rowlock EXCEPT ![r] = 0 ]
    /\ UNCHANGED migvars
    /\ UNCHANGED loginvars

\* the exception handler without the rollback: the counter update stays
BookException_NoRollback(r) ==
    /\ req[r].pc \in {"checked", "locked"}
    /\ req' = [ req EXCEPT ![r] = Returned(MsgFailed) ]
    /\ rowlock' = [ rowlock EXCEPT ![r] = 0 ]
    /\ slots' = IF req[r].pc = "locked" /\ req[r].seen.found /\ req[r].slot_id \in DOMAIN slots
                THEN [ slots EXCEPT ![req[r].slot_id].current_volunteers = @ + 1 ]
                ELSE slots
    /\ UNCHANGED << events, bookings, nextEventId, nextSlotId, nextBookingId >>
    /\ UNCHANGED migvars
    /\ UNCHANGED loginvars

\* lines 678-680: an exception of the storage layer at the locking read or
\* at the commit; the rollback drops the writes and the lock
BookException(r) ==
    /\ req[r].pc \in {"checked", "locked"}
    /\ req' = [ req EXCEPT ![r] = Returned(MsgFailed) ]
    /\ rowlock' = [ rowlock EXCEPT ![r] = 0 ]
    /\ UNCHANGED tables
    /\ UNCHANGED migvars
    /\ UNCHANGED loginvars

\* ------------------------------------------------------------ cancellation
\* Cancel(bookingID) of the design: confirmed -> cancelled, the counter of
\* the slot goes down by 1 and the slot re-opens, in one step that waits for
\* the row lock like the reservation does
Cancel(b) ==
    /\ b \in DOMAIN bookings
    /\ bookings[b].status = "confirmed"
    /\ LET s == bookings[b].time_slot_id
       IN  /\ s \in DOMAIN slots
           /\ LockFree(s)
           /\ slots' = [ slots EXCEPT ![s].current_volunteers = @ - 1,
                                      ![s].is_available = TRUE ]
    /\ bookings' = [ bookings EXCEPT ![b].status = "cancelled" ]
    /\ UNCHANGED << events, nextEventId, nextSlotId, nextBookingId, req, rowlock >>
    /\ UNCHANGED migvars
    /\ UNCHANGED loginvars

\* ------------------------------------------------------------ specification
\* A new call is only taken while the bookings still to come fit in
\* MaxBookings.
Next ==
    \/ \E sd \in Days, ed \in Days, mv \in Capacities : ngo_create_event(sd, ed, mv)
    \/ \E sd \in Days, ed \in Days, mv \in Capacities : CreateException(sd, ed, mv)
    \/ \E e \in EventIds, sd \in Days, ed \in Days, mv \in EditCapacities :
           ngo_edit_event(e, sd, ed, mv)
    \/ \E e \in EventIds : ngo_toggle_event_status(e)
    \/ \E e \in EventIds : ngo_delete_event(e)
    \/ \E r \in DOMAIN req, v \in Volunteers, s \in SlotInputs :
           /\ nextBookingId + Cardinality(InFlight) <= MaxBookings
           /\ BookCheckExisting(r, v, s)
    \/ \E r \in DOMAIN req : BookLockSlot(r)
    \/ \E r \in DOMAIN req, e \in EventInputs : BookCommit(r, e)
    \/ \E r \in DOMAIN req : BookException(r)
    \/ \E b \in 1..MaxBookings : Cancel(b)

Spec == Init /\ [][Next]_vars

\* ------------------------------------------------------------ the race
\* RaceReqs distinct volunteers each post one book_slot for slot 1 of an
\* event that ngo_create_event has created with capacity cap >= 1 and that
\* ngo_toggle_event_status may have deactivated before the first call.
RaceInit ==
    \E cap \in 1..MaxCap, deactivated \in BOOLEAN :
        /\ events = (1 :> IF deactivated THEN Toggled(NewEvent(1, 1, cap))
                                         ELSE NewEvent(1, 1, cap))
        /\ slots = NewSlots(1, 1, 1, cap, 1)
        /\ bookings = << >>
        /\ nextEventId = 2
        /\ nextSlotId = 1 + SlotsPerDay
        /\ nextBookingId = 1
        /\ req = [ r \in 1..RaceReqs |-> IdleReq ]
        /\ rowlock = [ r \in 1..RaceReqs |-> 0 ]
        /\ MigStart
        /\ LoginStart

RaceNext ==
    \/ \E r \in DOMAIN req : req[r].pc = "idle" /\ BookCheckExisting(r, r, 1)
    \/ \E r \in DOMAIN req : BookLockSlot(r)
    \/ \E r \in DOMAIN req : BookCommit(r, 1)

SpecRace == RaceInit /\ [][RaceNext]_vars

AllReturned == \A r \in DOMAIN req : req[r].pc = "done"

ReturnedWith(msg) == { r \in DOMAIN req : req[r].pc = "done" /\ req[r].outcome = msg }

\* request r sends its response in this step
Returns(r) == req[r].pc # "done" /\ req'[r].pc = "done"

\* request r leaves the transaction block in this step
LeavesBlock(r) == req[r].pc = "locked" /\ req'[r].pc = "done"

\* ------------------------------------------------------------ run_migrations
\* lines 137-147: the current version is read (the table is created when it
\* is missing) and the migrations above it are queued; raised says that a
\* query of get_current_version raised
run_migrations(raised) ==
    /\ run.pc = "idle"
    /\ LET cv == get_current_version(migrationsTable, raised)
           pending == { m \in RegisteredVersions : m > cv }
       IN  /\ migrationsTable' = IF ~ raised /\ ~ migrationsTable.exists
                                 THEN [ migrationsTable EXCEPT !.exists = TRUE ]
                                 ELSE migrationsTable
           /\ run' = IF pending = {} THEN IdleRun
                     ELSE [ pc |-> "applying", pending |-> Ascending(pending) ]
    /\ UNCHANGED << tables, req, rowlock >>
    /\ UNCHANGED loginvars

\* lines 151-156 with apply_migration: the next migration of the loop is
\* applied and recorded, or it raises (always when the table is missing),
\* is rolled back and ends the loop
apply_migration(ok) ==
    /\ run.pc = "applying"
    /\ IF ok /\ migrationsTable.exists
       THEN /\ Len(migrationsTable.versions) < MaxRows
            /\ migrationsTable' = [ migrationsTable EXCEPT
                                      !.versions = Append(@, Head(run.pending)) ]
            /\ run' = IF Tail(run.pending) = << >> THEN IdleRun
                      ELSE [ run EXCEPT !.pending = Tail(@) ]
       ELSE /\ migrationsTable' = migrationsTable
            /\ run' = IdleRun
    /\ UNCHANGED << tables, req, rowlock >>
    /\ UNCHANGED loginvars

MigNext ==
    \/ \E raised \in BOOLEAN : run_migrations(raised)
    \/ \E ok \in BOOLEAN : apply_migration(ok)

SpecMig == Init /\ [][MigNext]_vars

\* ------------------------------------------------------------ login
\* the browser sends a login POST with the session cookie it holds
LoginPost(p) ==
    /\ posts[p].pc \in {"idle", "done"}
    /\ posts' = [ posts EXCEPT ![p] = [ IdlePost EXCEPT !.pc = "posted",
                                                         !.sent = session_cookie ] ]
    /\ UNCHANGED << tables, req, rowlock, migvars, session_cookie >>

\* lines 170-193: the handler works on the session of the cookie that came
\* with the request; valid says that the user exists and the password
\* matches.  A session that the handler has changed goes back to the
\* browser with the response.
login(p, valid) ==
    /\ posts[p].pc = "posted"
    /\ LET s == posts[p].sent
           failed_attempts == FailedAttempts(s)
       IN  IF failed_attempts >= MaxFailedAttempts
           THEN /\ posts' = [ posts EXCEPT ![p] = [ IdlePost EXCEPT !.pc = "done",
                                                      !.outcome = "locked" ] ]
                /\ session_cookie' = session_cookie
           ELSE IF valid
           THEN /\ posts' = [ posts EXCEPT ![p] = [ IdlePost EXCEPT !.pc = "done",
                                                      !.outcome = "authenticated" ] ]
                /\ session_cookie' = [ present |-> FALSE, failed_login_attempts |-> 0,
                                       user_id |-> TRUE ]
           ELSE /\ posts' = [ posts EXCEPT ![p] = [ IdlePost EXCEPT !.pc = "done",
                                                      !.outcome = "invalid" ] ]
                /\ session_cookie' = [ s EXCEPT !.present = TRUE,
                                         !.failed_login_attempts = failed_attempts + 1 ]
    /\ UNCHANGED << tables, req, rowlock, migvars >>

\* GET /logout: logout_user() takes the user out of the session
logout ==
    /\ session_cookie.user_id
    /\ session_cookie' = [ session_cookie EXCEPT !.user_id = FALSE ]
    /\ UNCHANGED << tables, req, rowlock, migvars, posts >>

LoginNext ==
    \/ \E p \in DOMAIN posts : LoginPost(p)
    \/ \E p \in DOMAIN posts, valid \in BOOLEAN : login(p, valid)
    \/ logout

SpecLogin == Init /\ [][LoginNext]_vars

\* ------------------------------------------------------------ contention
\* RaceReqs server threads take the calls of volunteers 1..RaceReqs for slot
\* 1, one call after the other, each volunteer calling again and again.  A
\* thread in the transaction block goes on to its end (weak fairness of
\* BookCommit), and the database grants the row lock to a waiting thread
\* once it is free often enough (strong fairness of BookLockSlot).  An
\* exception of the storage layer may happen at any time and is never forced.
LiveInit ==
    \E cap \in Capacities :
        /\ events = (1 :> NewEvent(1, 1, cap))
        /\ slots = NewSlots(1, 1, 1, cap, 1)
        /\ bookings = << >>
        /\ nextEventId = 2
        /\ nextSlotId = 1 + SlotsPerDay
        /\ nextBookingId = 1
        /\ req = [ r \in 1..RaceReqs |-> IdleReq ]
        /\ rowlock = [ r \in 1..RaceReqs |-> 0 ]
        /\ MigStart
        /\ LoginStart

LiveNext ==
    \/ \E r \in DOMAIN req : BookCheckExisting(r, r, 1)
    \/ \E r \in DOMAIN req : BookLockSlot(r)
    \/ \E r \in DOMAIN req : BookCommit(r, 1)
    \/ \E r \in DOMAIN req : BookException(r)

LiveFairness ==
    \A r \in 1..RaceReqs : SF_vars(BookLockSlot(r)) /\ WF_vars(BookCommit(r, 1))

SpecLive == LiveInit /\ [][LiveNext]_vars /\ LiveFairness

\* ------------------------------------------------------------ claims

\* C1: for every time slot, the number of committed bookings with status
\* 'confirmed' that reference it never exceeds the slot's max_volunteers,
\* under any interleaving of the requests.
C1_ConfirmedWithinCapacity ==
    \A s \in DOMAIN slots :
        Cardinality(ConfirmedBookingsOfSlot(s)) <= slots[s].max_volunteers

\* a slot that is booked to its capacity while another request holds its lock
C1_Witness ==
    \E s \in DOMAIN slots, r \in DOMAIN req :
        /\ slots[s].max_volunteers >= 1
        /\ Cardinality(ConfirmedBookingsOfSlot(s)) = slots[s].max_volunteers
        /\ req[r].pc = "locked" /\ rowlock[r] = s /\ ~ req[r].seen.is_available

\* C2 (as claimed): every slot's current_volunteers equals the number of
\* its bookings that are not cancelled, and lies in 0..max_volunteers.
C2_CounterMatchesBookings ==
    \A s \in DOMAIN slots :
        /\ slots[s].current_volunteers = Cardinality(ActiveBookingsOfSlot(s))
        /\ 0 <= slots[s].current_volunteers
        /\ slots[s].current_volunteers <= slots[s].max_volunteers

\* C3 (as claimed): when the M >= N racing requests have all returned,
\* exactly N have succeeded, exactly M-N got 'Slot is full', and the slot has
\* current_volunteers = N and is_available = false.
C3_LosersGetSlotFull ==
    (AllReturned /\ Cardinality(DOMAIN req) >= slots[1].max_volunteers) =>
        /\ Cardinality(ReturnedWith(MsgBooked)) = slots[1].max_volunteers
        /\ Cardinality(ReturnedWith(MsgFull)) =
               Cardinality(DOMAIN req) - slots[1].max_volunteers
        /\ slots[1].current_volunteers = slots[1].max_volunteers
        /\ ~ slots[1].is_available

\* What book_slot does in the race instead: without a storage exception,
\* exactly N requests succeed and the M-N others get 'Slot not available',
\* none 'Slot is full'; the slot ends with current_volunteers = N, closed.
RaceLosersGetNotAvailable ==
    (AllReturned /\ Cardinality(DOMAIN req) >= slots[1].max_volunteers) =>
        /\ Cardinality(ReturnedWith(MsgBooked)) = slots[1].max_volunteers
        /\ Cardinality(ReturnedWith(MsgNotAvailable)) =
               Cardinality(DOMAIN req) - slots[1].max_volunteers
        /\ ReturnedWith(MsgFull) = {}
        /\ slots[1].current_volunteers = slots[1].max_volunteers
        /\ ~ slots[1].is_available

\* C4 (as claimed): there is at most one booking that is not cancelled per
\* (volunteer, time slot) pair.
C4_OneActiveBookingPerPair ==
    \A b1 \in DOMAIN bookings, b2 \in DOMAIN bookings :
        ( /\ b1 # b2
          /\ bookings[b1].volunteer_id = bookings[b2].volunteer_id
          /\ bookings[b1].time_slot_id = bookings[b2].time_slot_id )
        => (bookings[b1].status = "cancelled" \/ bookings[b2].status = "cancelled")

HoldsConfirmed(v, s) ==
    \E b \in DOMAIN bookings :
        /\ bookings[b].volunteer_id = v
        /\ bookings[b].time_slot_id = s
        /\ bookings[b].status = "confirmed"

\* C5: a call of book_slot by a volunteer who holds a confirmed booking on
\* the slot never gets past the duplicate check: the call returns
\* 'You have already booked this slot', and no booking or slot row changes.
C5_HolderIsRejected ==
    [][ \A r \in DOMAIN req :
          (req[r].pc \in {"idle", "done"} /\ req'[r] # req[r]) =>
              \/ /\ req'[r].pc = "checked"
                 /\ ~ HoldsConfirmed(req'[r].volunteer, req'[r].slot_id)
              \/ /\ req'[r] = Returned(MsgDuplicate)
                 /\ bookings' = bookings
                 /\ slots' = slots ]_vars

\* a call was rejected as a duplicate while every booking ever made is
\* still there and confirmed
C5_Witness ==
    /\ \E r \in DOMAIN req : req[r].pc = "done" /\ req[r].outcome = MsgDuplicate
    /\ nextBookingId > 1
    /\ DOMAIN bookings = 1..(nextBookingId - 1)
    /\ \A b \in DOMAIN bookings : bookings[b].status = "confirmed"

\* C6 (as claimed): the event having been deactivated before the calls,
\* every call against its slot is rejected with 'Slot not available' and no
\* booking is created.
C6_InactiveEventRejects ==
    ~ events[1].is_active =>
        /\ bookings = << >>
        /\ \A r \in DOMAIN req : req[r].pc = "done" => req[r].outcome = MsgNotAvailable

\* C7: cancelling a confirmed booking of a slot that is booked to capacity
\* sets the booking to 'cancelled', takes 1 off current_volunteers and makes
\* is_available true in one step; and a request that then runs the
\* transaction block holding the lock of the slot with one unit left succeeds
\* and leaves current_volunteers equal to max_volunteers.
C7_CancelReopens ==
    [][ /\ \A b \in DOMAIN bookings :
             LET s == bookings[b].time_slot_id
             IN  ( /\ b \in DOMAIN bookings'
                   /\ bookings[b].status = "confirmed"
                   /\ bookings'[b].status = "cancelled"
                   /\ s \in DOMAIN slots
                   /\ ~ slots[s].is_available
                   /\ slots[s].current_volunteers = slots[s].max_volunteers )
                 => ( /\ s \in DOMAIN slots'
                      /\ slots'[s].current_volunteers = slots[s].current_volunteers - 1
                      /\ slots'[s].is_available
                      /\ bookings' = [ bookings EXCEPT ![b].status = "cancelled" ] )
        /\ \A r \in DOMAIN req :
             LET s == req[r].slot_id
             IN  ( /\ LeavesBlock(r)
                   /\ req'[r].outcome # MsgFailed
                   /\ rowlock[r] = s
                   /\ s \in DOMAIN slots
                   /\ slots[s].is_available
                   /\ slots[s].current_volunteers = slots[s].max_volunteers - 1 )
                 => ( /\ req'[r].outcome = MsgBooked
                      /\ slots'[s].current_volunteers = slots[s].max_volunteers ) ]_vars

\* a full slot with a cancelled booking and a later confirmed booking of
\* another volunteer
C7_Witness ==
    \E b1 \in DOMAIN bookings, b2 \in DOMAIN bookings :
        LET s == bookings[b1].time_slot_id
        IN  /\ b1 < b2
            /\ bookings[b2].time_slot_id = s
            /\ bookings[b1].status = "cancelled"
            /\ bookings[b2].status = "confirmed"
            /\ bookings[b1].volunteer_id # bookings[b2].volunteer_id
            /\ s \in DOMAIN slots
            /\ slots[s].current_volunteers = slots[s].max_volunteers
            /\ ~ slots[s].is_available

\* C8: a successful book_slot, in one step, inserts exactly one booking, with
\* status 'confirmed' for its volunteer and slot, adds exactly 1 to the slot's
\* current_volunteers and sets is_available to false iff the new count has
\* reached max_volunteers; no other slot and no other booking changes.
C8_OneUnitPerSuccess ==
    [][ \A r \in DOMAIN req :
          (Returns(r) /\ req'[r].outcome = MsgBooked) =>
              LET s == req[r].slot_id
                  b == nextBookingId
              IN  /\ DOMAIN bookings' = DOMAIN bookings \cup {b}
                  /\ b \notin DOMAIN bookings
                  /\ \A x \in DOMAIN bookings : bookings'[x] = bookings[x]
                  /\ bookings'[b].volunteer_id = req[r].volunteer
                  /\ bookings'[b].time_slot_id = s
                  /\ bookings'[b].status = "confirmed"
                  /\ s \in DOMAIN slots
                  /\ DOMAIN slots' = DOMAIN slots
                  /\ \A x \in DOMAIN slots \ {s} : slots'[x] = slots[x]
                  /\ slots'[s].current_volunteers = slots[s].current_volunteers + 1
                  /\ slots'[s].is_available =
                         ~ (slots'[s].current_volunteers = slots[s].max_volunteers)
                  /\ slots'[s] = [ slots[s] EXCEPT
                                     !.current_volunteers = slots'[s].current_volunteers,
                                     !.is_available = slots'[s].is_available ] ]_vars

\* a request has succeeded and left its slot open with one more volunteer
C8_Witness ==
    \E r \in DOMAIN req, s \in DOMAIN slots :
        /\ req[r].pc = "done" /\ req[r].outcome = MsgBooked
        /\ slots[s].current_volunteers = 1
        /\ slots[s].max_volunteers = 2
        /\ slots[s].is_available
        /\ Cardinality(BookingsOfSlot(s)) = 1

\* C9 (as claimed): every slot's is_available flag equals
\* (current_volunteers < max_volunteers and its event's is_active).
C9_FlagIsDerived ==
    \A s \in DOMAIN slots :
        slots[s].is_available =
            ( /\ slots[s].current_volunteers < slots[s].max_volunteers
              /\ events[slots[s].event_id].is_active )

\* C10: a request that returns anything but success leaves every slot and
\* booking row as it was, and in every step a booking row is inserted iff a
\* slot's current_volunteers goes up.
C10_NoPartialState ==
    [][ /\ \A r \in DOMAIN req :
             (req'[r].pc = "done" /\ req'[r] # req[r] /\ req'[r].outcome # MsgBooked)
                 => (slots' = slots /\ bookings' = bookings)
        /\ (DOMAIN bookings' \ DOMAIN bookings # {}) <=>
               (\E s \in DOMAIN slots \cap DOMAIN slots' :
                    slots'[s].current_volunteers > slots[s].current_volunteers) ]_vars

\* a request was aborted by an exception and a slot holds one booking, with
\* its counter at 1
C10_Witness ==
    \E r \in DOMAIN req, s \in DOMAIN slots :
        /\ req[r].pc = "done" /\ req[r].outcome = MsgFailed
        /\ slots[s].current_volunteers = 1
        /\ Cardinality(ActiveBookingsOfSlot(s)) = 1

\* C11 (as claimed): after ngo_delete_event nothing refers to a deleted row:
\* every slot's event exists, and every booking's slot exists and its event,
\* once created, still exists.
C11_DeleteLeavesNoOrphans ==
    /\ \A s \in DOMAIN slots : slots[s].event_id \in DOMAIN events
    /\ \A b \in DOMAIN bookings :
         /\ bookings[b].time_slot_id \in DOMAIN slots
         /\ bookings[b].event_id < nextEventId => bookings[b].event_id \in DOMAIN events

C13_LockTimeoutIsContention ==
    [][ \A r \in DOMAIN req :
          ( /\ req[r].pc = "checked"
            /\ req[r].slot_id \in DOMAIN slots
            /\ ~ LockFree(req[r].slot_id)
            /\ Returns(r) )
          => req'[r].outcome # MsgFailed ]_vars

\* C14 (as claimed): a request that found no row for its slot_id is answered
\* with an outcome that is neither the one of a closed slot nor the one of a
\* full slot, and changes no table.
C14_MissingSlotIsNotFound ==
    [][ \A r \in DOMAIN req :
          (LeavesBlock(r) /\ ~ req[r].seen.found /\ req'[r].outcome # MsgFailed)
          => ( /\ req'[r].outcome \notin {MsgNotAvailable, MsgFull}
               /\ UNCHANGED tables ) ]_vars

\* C15 (as claimed): every slot has max_volunteers >= 1.
C15_PositiveCapacity ==
    \A s \in DOMAIN slots : slots[s].max_volunteers >= 1

HoldsActive(v, s) ==
    \E b \in DOMAIN bookings :
        /\ bookings[b].volunteer_id = v
        /\ bookings[b].time_slot_id = s
        /\ bookings[b].status # "cancelled"

\* C16 (as claimed): a call of volunteer v for slot s gets past the duplicate
\* check whenever v has no booking on s that is not cancelled.
C16_CancelledIsNoDuplicate ==
    [][ \A r \in DOMAIN req, v \in Volunteers, s \in SlotInputs :
          (BookCheckExisting(r, v, s) /\ ~ HoldsActive(v, s))
          => req'[r].pc = "checked" ]_vars

\* C19 (as claimed): every booking's event_id is the event_id of the slot
\* its time_slot_id names.
C19_BookingEventMatchesSlot ==
    \A b \in DOMAIN bookings :
        bookings[b].time_slot_id \in DOMAIN slots
        => bookings[b].event_id = slots[bookings[b].time_slot_id].event_id

\* C20 (as claimed): an event row that a step of ngo_create_event leaves in
\* the table has, for each day from its start_date to its end_date, exactly
\* one slot starting at each of 9, 11, 13 and 15, two hours long, with
\* current_volunteers = 0, is_available true and the event's max_volunteers,
\* and no other slot.
C20_CreatedEventHasAllSlots ==
    [][ \A e \in DOMAIN events' \ DOMAIN events :
          LET ev == events'[e]
              own == { s \in DOMAIN slots' : slots'[s].event_id = e }
          IN  /\ \A d \in ev.start_date..ev.end_date, h \in {9, 11, 13, 15} :
                   Cardinality({ s \in own : slots'[s].day = d /\ slots'[s].start_hour = h }) = 1
              /\ \A s \in own :
                   /\ slots'[s].day \in ev.start_date..ev.end_date
                   /\ slots'[s].start_hour \in {9, 11, 13, 15}
                   /\ slots'[s].end_hour = slots'[s].start_hour + 2
                   /\ slots'[s].current_volunteers = 0
                   /\ slots'[s].is_available
                   /\ slots'[s].max_volunteers = ev.max_volunteers ]_vars

\* C17: under fair scheduling every request that has passed the duplicate
\* check returns, and a request that is not in the transaction block holds no
\* row lock: every way out of the block gives the lock back.
C17_RequestsReturn ==
    /\ \A r \in 1..RaceReqs :
         (req[r].pc \in {"checked", "locked"}) ~> (req[r].pc = "done")
    /\ [](\A r \in 1..RaceReqs : req[r].pc # "locked" => rowlock[r] = 0)

\* one request was turned away or aborted, another holds the row lock and a
\* third waits for it
C17_Witness ==
    \E r1 \in DOMAIN req, r2 \in DOMAIN req, r3 \in DOMAIN req :
        /\ req[r1].pc = "done"
        /\ req[r1].outcome \in {MsgNotAvailable, MsgFull, MsgFailed}
        /\ req[r2].pc = "locked" /\ rowlock[r2] = 1
        /\ req[r3].pc = "checked" /\ ~ LockFree(req[r3].slot_id)

\* C18 (as claimed): the versions recorded in the migrations table are
\* 1..k for some k, each recorded once.
C18_RecordedOnceAsPrefix ==
    LET vs == migrationsTable.versions
    IN  /\ \A i \in DOMAIN vs, j \in DOMAIN vs : vs[i] = vs[j] => i = j
        /\ { vs[i] : i \in DOMAIN vs } = 1..Len(vs)

\* C21 (as claimed): the session's failed_login_attempts is in 0..5; a
\* login POST that fails while the counter is below 5 leaves it exactly 1
\* higher; a POST that authenticates leaves the session without the counter;
\* and no POST authenticates while the counter is 5.
C21_LoginLockout ==
    [][ /\ FailedAttempts(session_cookie) \in 0..5
        /\ FailedAttempts(session_cookie') \in 0..5
        /\ \A p \in DOMAIN posts :
             (posts[p].pc = "posted" /\ posts'[p].pc = "done") =>
                 LET c == FailedAttempts(session_cookie)
                 IN  /\ (posts'[p].outcome = "invalid" /\ c < 5)
                          => FailedAttempts(session_cookie') = c + 1
                     /\ posts'[p].outcome = "authenticated"
                          => ~ session_cookie'.present
                     /\ c = 5 => posts'[p].outcome # "authenticated" ]_vars
====
